---- MODULE Spec2Model ----
(***************************************************************************)
(* A model of the retail pipeline of DataMining_Project_1:                 *)
(*   clean_up_data -> extract_unique_descriptions -> create_matrix_excel   *)
(*   -> fill_matrix -> create_monthly_batches                              *)
(* The state is the working directory: the raw workbook, the cleaned       *)
(* workbook, items.log, matrix.csv, the batches directory, and what each   *)
(* function returned or reported the last time it ran.                     *)
(*                                                                         *)
(* A text (a Python str) is a sequence of one-character strings.  A cell   *)
(* of a data frame is a record [k, s, n]: k is "nan", "str", "int" or      *)
(* "ts" (a timestamp, n counting days with 31-day months).                 *)
(***************************************************************************)
EXTENDS Integers, Sequences, FiniteSets, TLC

VARIABLES raw, cleaned, itemsLog, matrix, batchesDir, batchFiles,
          cleanRet, extractRet, makeRet, fillRet, batchRet,
          listRet, reducedDir, reducedFiles, projRet,
          streamingFile, ultraFile, streamingRet, ultraRet, openHandles

vars == <<raw, cleaned, itemsLog, matrix, batchesDir, batchFiles,
          cleanRet, extractRet, makeRet, fillRet, batchRet,
          listRet, reducedDir, reducedFiles, projRet,
          streamingFile, ultraFile, streamingRet, ultraRet, openHandles>>

----------------------------------------------------------------------------
(* Bounds of the model *)

\* longest workbook (number of records) of the matrix-building specification
MaxRecs == 3
\* longest workbook of the record-filter specification
MaxRawRecs == 2
\* longest workbook of the batching specification
MaxBatchRecs == 2
\* longest workbook of the specification in which the workbook is replaced
MaxRerunRecs == 1
\* fill_matrix is not run once matrix.csv holds more than this many data rows
MaxMatrixRows == 1
\* extract_unique_descriptions is not run once items.log holds more lines
MaxLogLines == 1
\* longest workbook of the projection specification
MaxProjRecs == 2
\* largest target dimension process_all_batches is asked for
MaxComponents == 2
\* records of a workbook of the end-to-end specification
MaxScenarioRecs == 3
\* records of a workbook of the two-strategies specification
MaxStrategyRecs == 2
\* records of the workbook that replaces the one of an earlier run
MaxStaleRecs == 1

----------------------------------------------------------------------------
(* Cells and texts *)

NaN == [k |-> "nan", s |-> <<>>, n |-> 0]
StrV(s) == [k |-> "str", s |-> s, n |-> 0]
IntV(n) == [k |-> "int", s |-> <<>>, n |-> n]
\* a timestamp at midnight of year y, month m, day d
TsV(y, m, d) == [k |-> "ts", s |-> <<>>, n |-> ((y * 12) + (m - 1)) * 31 + (d - 1)]

\* pd.isna / pd.notna
IsNa(v) == v.k = "nan"

IsSpace(c) == c = " "

RECURSIVE LStrip(_)
LStrip(s) == IF s # <<>> /\ IsSpace(Head(s)) THEN LStrip(Tail(s)) ELSE s

RECURSIVE RStrip(_)
RStrip(s) ==
    IF s # <<>> /\ IsSpace(s[Len(s)]) THEN RStrip(SubSeq(s, 1, Len(s) - 1)) ELSE s

\* str.strip()
Strip(s) == RStrip(LStrip(s))

Digit(d) == <<"0", "1", "2", "3", "4", "5", "6", "7", "8", "9">>[d + 1]

DigitVal(c) == CHOOSE d \in 0..9 : Digit(d) = c

RECURSIVE NatToStr(_)
NatToStr(n) == IF n < 10 THEN <<Digit(n)>> ELSE NatToStr(n \div 10) \o <<Digit(n % 10)>>

\* n written with at least w digits, zero padded
RECURSIVE Pad(_, _)
Pad(s, w) == IF Len(s) >= w THEN s ELSE Pad(<<"0">> \o s, w)

TsYear(v) == (v.n \div 31) \div 12
TsMonth(v) == ((v.n \div 31) % 12) + 1
TsDay(v) == (v.n % 31) + 1

\* str(value)
StrOf(v) ==
    CASE v.k = "str" -> v.s
      [] v.k = "int" -> IF v.n < 0 THEN <<"-">> \o NatToStr(0 - v.n) ELSE NatToStr(v.n)
      [] v.k = "nan" -> <<"n", "a", "n">>
      [] v.k = "ts"  -> Pad(NatToStr(TsYear(v)), 4) \o <<"-">> \o Pad(NatToStr(TsMonth(v)), 2)
                        \o <<"-">> \o Pad(NatToStr(TsDay(v)), 2)
                        \o <<" ", "0", "0", ":", "0", "0", ":", "0", "0">>

\* the characters of the model in code point order
\* (ErrorText stands for a whole message, a run of characters that starts with "E";
\* ".csv", "batch_" and "batches/" are runs of characters as well)
ErrorText == "Error: File 'Online Retail_Cleaned.xlsx' not found"

Alphabet == <<" ", "-", ".csv", "0", "1", "2", "3", "4", "5", "6", "7", "8", "9", ":",
              "A", "B", ErrorText, "S", "T", "a", "batch_", "batches/", "n", "x">>

Ord(c) == CHOOSE i \in 1..Len(Alphabet) : Alphabet[i] = c

\* s < t for Python str
RECURSIVE StrLess(_, _)
StrLess(s, t) ==
    IF t = <<>> THEN FALSE
    ELSE IF s = <<>> THEN TRUE
    ELSE IF Head(s) = Head(t) THEN StrLess(Tail(s), Tail(t))
    ELSE Ord(Head(s)) < Ord(Head(t))

\* a variant of SortedStrs that sorts in descending order
RECURSIVE SortedStrsDescending(_)
SortedStrsDescending(S) ==
    IF S = {} THEN <<>>
    ELSE LET m == CHOOSE x \in S : \A y \in S \ {x} : StrLess(y, x)
         IN <<m>> \o SortedStrsDescending(S \ {m})

\* sorted(set of str)
RECURSIVE SortedStrs(_)
SortedStrs(S) ==
    IF S = {} THEN <<>>
    ELSE LET m == CHOOSE x \in S : \A y \in S \ {x} : StrLess(x, y)
         IN <<m>> \o SortedStrs(S \ {m})

Range(f) == {f[i] : i \in DOMAIN f}

SeqsUpTo(S, n) == UNION {[1..k -> S] : k \in 0..n}

----------------------------------------------------------------------------
(* Files *)

NoFile == [exists |-> FALSE, rows |-> <<>>]
File(rows) == [exists |-> TRUE, rows |-> rows]

\* pd.read_excel: an empty text cell comes back as a missing value
ReadCell(v) == IF v.k = "str" /\ v.s = <<>> THEN NaN ELSE v

ReadExcel(f) == [i \in DOMAIN f.rows |-> [c \in DOMAIN f.rows[i] |-> ReadCell(f.rows[i][c])]]

----------------------------------------------------------------------------
(* clean_up_data *)

required_columns == <<"InvoiceNo", "StockCode", "Quantity", "InvoiceDate", "CustomerID">>

\* the test of one required column
IsEmptyCell(v) == IsNa(v) \/ (v.k = "str" /\ Strip(v.s) = <<>>)

\* row["UnitPrice"] <= 0 raises TypeError for a text cell
PriceRaises(row) == ~IsNa(row.UnitPrice) /\ row.UnitPrice.k # "int"

\* a variant of PriceFails that accepts every price that is present
PriceFailsEmptyOnly(row) == IsNa(row.UnitPrice)

PriceFails(row) == IsNa(row.UnitPrice) \/ row.UnitPrice.n <= 0

RECURSIVE ColumnReasons(_, _)
ColumnReasons(row, cols) ==
    IF cols = <<>> THEN <<>>
    ELSE (IF IsEmptyCell(row[Head(cols)]) THEN <<Head(cols) \o " is empty">> ELSE <<>>)
         \o ColumnReasons(row, Tail(cols))

\* a variant of DeletionReason that stops at the first rule that fires
DeletionReasonFirstOnly(row) ==
    LET reasons == ColumnReasons(row, required_columns)
                   \o (IF PriceFails(row) THEN <<"UnitPrice is <= 0">> ELSE <<>>)
    IN IF reasons = <<>> THEN <<>> ELSE <<Head(reasons)>>

\* deletion_reason of one row, before the join
DeletionReason(row) ==
    ColumnReasons(row, required_columns)
    \o (IF PriceFails(row)
        THEN <<IF IsNa(row.UnitPrice) THEN "UnitPrice is empty" ELSE "UnitPrice is <= 0">>
        ELSE <<>>)

ShouldDelete(row) == DeletionReason(row) # <<>>

\* deleted_rows: (index, reasons) of the rows to delete, in input order
RECURSIVE DeletedRows(_, _)
DeletedRows(df, i) ==
    IF i > Len(df) THEN <<>>
    ELSE (IF ShouldDelete(df[i])
          THEN <<[index |-> i, deletion_reason |-> DeletionReason(df[i])]>>
          ELSE <<>>)
         \o DeletedRows(df, i + 1)

\* df.drop(rows_to_drop)
RECURSIVE DropRows(_, _, _)
DropRows(df, drop, i) ==
    IF i > Len(df) THEN <<>>
    ELSE (IF i \in drop THEN <<>> ELSE <<df[i]>>) \o DropRows(df, drop, i + 1)

\* the run raises: a price that cannot be compared, or the percentage of an empty frame
CleanRaises(df) == (\E i \in DOMAIN df : PriceRaises(df[i])) \/ Len(df) = 0

NoCleanRet == [ran |-> FALSE, ok |-> FALSE, original |-> 0, deleted_rows |-> <<>>, remaining |-> 0]

\* the run on a frame that does not raise: the cleaned frame and the summary
CleanRun(df) ==
    LET deleted_rows == DeletedRows(df, 1)
        df_cleaned == DropRows(df, {deleted_rows[j].index : j \in DOMAIN deleted_rows}, 1)
    IN [df_cleaned |-> df_cleaned,
        ret |-> [ran |-> TRUE, ok |-> TRUE, original |-> Len(df),
                 deleted_rows |-> deleted_rows, remaining |-> Len(df_cleaned)]]

CleanUpData ==
    /\ raw.exists
    /\ IF CleanRaises(ReadExcel(raw))
       THEN /\ cleaned' = cleaned
            /\ cleanRet' = [NoCleanRet EXCEPT !.ran = TRUE]
       ELSE \E run \in {CleanRun(ReadExcel(raw))} :
                /\ cleaned' = File(run.df_cleaned)
                /\ cleanRet' = run.ret
    /\ UNCHANGED <<raw, itemsLog, matrix, batchesDir, batchFiles,
                   extractRet, makeRet, fillRet, batchRet>>
    /\ UNCHANGED <<listRet, reducedDir, reducedFiles, projRet>>
    /\ UNCHANGED <<streamingFile, ultraFile, streamingRet, ultraRet, openHandles>>

----------------------------------------------------------------------------
(* extract_unique_descriptions *)

Column(df, c) == [i \in DOMAIN df |-> df[i][c]]

\* the set the loop over the rows builds
UniqueDescriptions(df) ==
    {Strip(StrOf(df[i].Description)) :
        i \in {j \in DOMAIN df : /\ ~IsNa(df[j].Description)
                                  /\ Strip(StrOf(df[j].Description)) # <<>>}}

\* items.log is opened for appending by logging.basicConfig before the workbook
\* is read; the FileNotFoundError message is logged to it as well
ExtractUniqueDescriptions ==
    /\ Len(itemsLog.rows) <= MaxLogLines
    /\ IF ~cleaned.exists
       THEN /\ itemsLog' = File(itemsLog.rows \o <<(<<ErrorText>>)>>)
            /\ extractRet' = [ran |-> TRUE, ok |-> FALSE, unique_descriptions |-> {}]
       ELSE \E unique_descriptions \in {UniqueDescriptions(ReadExcel(cleaned))} :
                LET sorted_descriptions == SortedStrs(unique_descriptions)
                IN /\ itemsLog' = File(itemsLog.rows \o sorted_descriptions)
                   /\ extractRet' = [ran |-> TRUE, ok |-> TRUE,
                                     unique_descriptions |-> unique_descriptions]
    /\ UNCHANGED <<raw, cleaned, matrix, batchesDir, batchFiles,
                   cleanRet, makeRet, fillRet, batchRet>>
    /\ UNCHANGED <<listRet, reducedDir, reducedFiles, projRet>>
    /\ UNCHANGED <<streamingFile, ultraFile, streamingRet, ultraRet, openHandles>>

----------------------------------------------------------------------------
(* create_matrix_excel (make_matrix.py) *)

\* the name of the id column, one run of characters
InvoiceNoText == <<"InvoiceNo">>

\* [line.strip() for line in f if line.strip()]
RECURSIVE ReadItems(_)
ReadItems(lines) ==
    IF lines = <<>> THEN <<>>
    ELSE (IF Strip(Head(lines)) # <<>> THEN <<Strip(Head(lines))>> ELSE <<>>)
         \o ReadItems(Tail(lines))

MatrixColumns(items) == <<InvoiceNoText>> \o items

CreateMatrixExcel ==
    /\ IF ~itemsLog.exists
       THEN /\ matrix' = matrix
            /\ makeRet' = [ran |-> TRUE, ok |-> FALSE]
       ELSE /\ matrix' = File(<<MatrixColumns(ReadItems(itemsLog.rows))>>)
            /\ makeRet' = [ran |-> TRUE, ok |-> TRUE]
    /\ UNCHANGED <<raw, cleaned, itemsLog, batchesDir, batchFiles,
                   cleanRet, extractRet, fillRet, batchRet>>
    /\ UNCHANGED <<listRet, reducedDir, reducedFiles, projRet>>
    /\ UNCHANGED <<streamingFile, ultraFile, streamingRet, ultraRet, openHandles>>

----------------------------------------------------------------------------
(* fill_matrix *)

\* == on two cells of a frame: a missing value equals nothing
CellEq(a, b) == a = b /\ ~IsNa(a)

\* a variant of Unique that keeps the last appearance of every value
RECURSIVE UniqueKeepLast(_)
UniqueKeepLast(s) ==
    IF s = <<>> THEN <<>>
    ELSE LET rest == UniqueKeepLast(Tail(s))
         IN IF Head(s) \in Range(rest) THEN rest ELSE <<Head(s)>> \o rest

\* Series.unique(): the values in order of first appearance
RECURSIVE Unique(_)
Unique(s) ==
    IF s = <<>> THEN <<>>
    ELSE LET init == Unique(SubSeq(s, 1, Len(s) - 1))
             last == s[Len(s)]
         IN IF last \in Range(init) THEN init ELSE init \o <<last>>

\* set(invoice_group["Description"].astype(str))
ItemsInInvoice(df, invoice_no) ==
    {StrOf(df[i].Description) : i \in {j \in DOMAIN df : CellEq(df[j].InvoiceNo, invoice_no)}}

\* one cell of the row: 1 if item in items_in_invoice else 0
Presence(item, items_in_invoice) == IF item \in items_in_invoice THEN 1 ELSE 0

\* a variant of InvoiceRow that writes how often the item occurs in the invoice
InvoiceRowCounting(df, invoice_no, items_columns) ==
    <<StrOf(invoice_no)>>
    \o [c \in DOMAIN items_columns |->
            NatToStr(Cardinality({j \in DOMAIN df :
                        /\ CellEq(df[j].InvoiceNo, invoice_no)
                        /\ StrOf(df[j].Description) = items_columns[c]}))]

\* the row of one invoice as csv.writer writes it: every field through str()
InvoiceRow(df, invoice_no, items_columns) ==
    <<StrOf(invoice_no)>>
    \o [c \in DOMAIN items_columns |->
            NatToStr(Presence(items_columns[c], ItemsInInvoice(df, invoice_no)))]

\* the rows one run appends
FilledRows(df, header) ==
    LET items_columns == Tail(header)
        unique_invoices == Unique(Column(df, "InvoiceNo"))
    IN [i \in DOMAIN unique_invoices |-> InvoiceRow(df, unique_invoices[i], items_columns)]

FillMatrix ==
    /\ Len(matrix.rows) <= MaxMatrixRows + 1
    /\ IF ~cleaned.exists \/ ~matrix.exists
       THEN /\ matrix' = matrix
            /\ fillRet' = [ran |-> TRUE, ok |-> FALSE, num_invoices |-> 0]
       ELSE \E rows \in {FilledRows(ReadExcel(cleaned), matrix.rows[1])} :
                /\ matrix' = File(matrix.rows \o rows)
                /\ fillRet' = [ran |-> TRUE, ok |-> TRUE, num_invoices |-> Len(rows)]
    /\ UNCHANGED <<raw, cleaned, itemsLog, batchesDir, batchFiles,
                   cleanRet, extractRet, makeRet, batchRet>>
    /\ UNCHANGED <<listRet, reducedDir, reducedFiles, projRet>>
    /\ UNCHANGED <<streamingFile, ultraFile, streamingRet, ultraRet, openHandles>>

----------------------------------------------------------------------------
(* create_monthly_batches *)

\* the order groupby sorts its keys in: numbers before texts
CellLess(a, b) ==
    IF a.k = "int" /\ b.k = "int" THEN a.n < b.n
    ELSE IF a.k = "str" /\ b.k = "str" THEN StrLess(a.s, b.s)
    ELSE a.k = "int"

RECURSIVE SortedCells(_)
SortedCells(S) ==
    IF S = {} THEN <<>>
    ELSE LET m == CHOOSE x \in S : \A y \in S \ {x} : CellLess(x, y)
         IN <<m>> \o SortedCells(S \ {m})

\* min() of a set of timestamps
MinTs(S) == CHOOSE t \in S : \A u \in S : t.n <= u.n

\* df_data.groupby("InvoiceNo")["InvoiceDate"].min(): (key, earliest date) in key order
InvoiceDates(df) ==
    LET keys == SortedCells({df[i].InvoiceNo : i \in DOMAIN df} \ {NaN})
    IN [g \in DOMAIN keys |->
            [invoice_no |-> keys[g],
             invoice_date |-> MinTs({df[i].InvoiceDate :
                                        i \in {j \in DOMAIN df : CellEq(df[j].InvoiceNo, keys[g])}})]]

\* str(invoice_date.to_period("M"))
MonthPeriod(ts) == Pad(NatToStr(TsYear(ts)), 4) \o <<"-">> \o Pad(NatToStr(TsMonth(ts)), 2)

\* str(invoice_no).strip()
InvoiceNoStr(invoice_no) == Strip(StrOf(invoice_no))

\* a dict after d[key] = value
Put(d, key, value) == [x \in DOMAIN d \cup {key} |-> IF x = key THEN value ELSE d[x]]

\* invoice_to_month, filled in the order of the groups
RECURSIVE InvoiceToMonth(_)
InvoiceToMonth(invoice_dates) ==
    IF invoice_dates = <<>> THEN <<>>
    ELSE LET n == Len(invoice_dates)
             g == invoice_dates[n]
         IN Put(InvoiceToMonth(SubSeq(invoice_dates, 1, n - 1)),
                InvoiceNoStr(g.invoice_no), MonthPeriod(g.invoice_date))

\* the id of a matrix row when its first field is empty
NoneKey == <<"None">>

\* a variant of RowKey that takes the id of a matrix row as it is written
RowKeyAsWritten(row) == IF row[1] = <<>> THEN NoneKey ELSE row[1]

\* str(invoice_no).strip() if invoice_no else None
RowKey(row) == IF row[1] = <<>> THEN NoneKey ELSE Strip(row[1])

\* invoice_to_month.get(invoice_no) if invoice_no else None; <<>> stands for None
RowMonth(row, invoice_to_month) ==
    LET invoice_no == RowKey(row)
    IN IF invoice_no # NoneKey /\ invoice_no # <<>> /\ invoice_no \in DOMAIN invoice_to_month
       THEN invoice_to_month[invoice_no]
       ELSE <<>>

\* the batch files after writing the header to one file per month
OpenBatches(files, unique_months, header) ==
    [m \in DOMAIN files \cup Range(unique_months) |->
        IF m \in Range(unique_months) THEN <<header>> ELSE files[m]]

\* a variant of RouteRows that puts a routed row first in its batch instead of last
RECURSIVE RouteRowsPrepending(_, _, _, _)
RouteRowsPrepending(rows, i, invoice_to_month, st) ==
    IF i > Len(rows) THEN st
    ELSE LET row == rows[i]
             month == RowMonth(row, invoice_to_month)
         IN IF row = <<>> THEN RouteRowsPrepending(rows, i + 1, invoice_to_month, st)
            ELSE IF month # <<>> /\ month \in DOMAIN st.row_count
            THEN RouteRowsPrepending(rows, i + 1, invoice_to_month,
                    [st EXCEPT !.total_rows = @ + 1,
                               !.files[month] = <<Head(@), row>> \o Tail(@),
                               !.row_count[month] = @ + 1,
                               !.matched_rows = @ + 1])
            ELSE RouteRowsPrepending(rows, i + 1, invoice_to_month,
                    [st EXCEPT !.total_rows = @ + 1,
                               !.unmatched_invoices = @ \cup {RowKey(row)}])

\* a variant of RouteRows that stops reading at the first row without a month
RECURSIVE RouteRowsStopping(_, _, _, _)
RouteRowsStopping(rows, i, invoice_to_month, st) ==
    IF i > Len(rows) THEN st
    ELSE LET row == rows[i]
             month == RowMonth(row, invoice_to_month)
         IN IF row = <<>> THEN RouteRowsStopping(rows, i + 1, invoice_to_month, st)
            ELSE IF month # <<>> /\ month \in DOMAIN st.row_count
            THEN RouteRowsStopping(rows, i + 1, invoice_to_month,
                    [st EXCEPT !.total_rows = @ + 1,
                               !.files[month] = Append(@, row),
                               !.row_count[month] = @ + 1,
                               !.matched_rows = @ + 1])
            ELSE [st EXCEPT !.total_rows = @ + 1,
                            !.unmatched_invoices = @ \cup {RowKey(row)}]

\* the loop over the rows of matrix.csv, st the state before row i
RECURSIVE RouteRows(_, _, _, _)
RouteRows(rows, i, invoice_to_month, st) ==
    IF i > Len(rows) THEN st
    ELSE LET row == rows[i]
             month == RowMonth(row, invoice_to_month)
         IN IF row = <<>> THEN RouteRows(rows, i + 1, invoice_to_month, st)
            ELSE IF month # <<>> /\ month \in DOMAIN st.row_count
            THEN RouteRows(rows, i + 1, invoice_to_month,
                    [st EXCEPT !.total_rows = @ + 1,
                               !.files[month] = Append(@, row),
                               !.row_count[month] = @ + 1,
                               !.matched_rows = @ + 1])
            ELSE RouteRows(rows, i + 1, invoice_to_month,
                    [st EXCEPT !.total_rows = @ + 1,
                               !.unmatched_invoices = @ \cup {RowKey(row)}])

NoBatchRet ==
    [ran |-> FALSE, ok |-> FALSE, total_rows |-> 0, matched_rows |-> 0,
     unmatched_invoices |-> {}, row_count |-> <<>>, invoices |-> <<>>,
     invoice_to_month |-> <<>>]

\* the run once both files are there and the mapping is not empty
BatchRun(df_data, matrix_rows, files) ==
    LET invoice_to_month == InvoiceToMonth(InvoiceDates(df_data))
        unique_months == SortedStrs(Range(invoice_to_month))
        header == matrix_rows[1]
        st0 == [files |-> OpenBatches(files, unique_months, header),
                total_rows |-> 0, matched_rows |-> 0, unmatched_invoices |-> {},
                row_count |-> [m \in Range(unique_months) |-> 0]]
        st == RouteRows(matrix_rows, 2, invoice_to_month, st0)
    IN [files |-> st.files,
        ret |-> [ran |-> TRUE, ok |-> TRUE, total_rows |-> st.total_rows,
                 matched_rows |-> st.matched_rows,
                 unmatched_invoices |-> st.unmatched_invoices,
                 row_count |-> st.row_count,
                 invoices |-> [m \in Range(unique_months) |->
                                 Cardinality({k \in DOMAIN invoice_to_month :
                                                invoice_to_month[k] = m})],
                 invoice_to_month |-> invoice_to_month]]

CreateMonthlyBatches ==
    /\ batchesDir' = TRUE
    /\ openHandles' = {}
    /\ IF ~cleaned.exists \/ ~matrix.exists \/ ReadExcel(cleaned) = <<>>
       THEN \* a missing file, or unique_months[0] of an empty mapping raising IndexError
            /\ batchFiles' = batchFiles
            /\ batchRet' = [NoBatchRet EXCEPT !.ran = TRUE]
       ELSE \E run \in {BatchRun(ReadExcel(cleaned), matrix.rows, batchFiles)} :
                /\ batchFiles' = run.files
                /\ batchRet' = run.ret
    /\ UNCHANGED <<raw, cleaned, itemsLog, matrix,
                   cleanRet, extractRet, makeRet, fillRet>>
    /\ UNCHANGED <<listRet, reducedDir, reducedFiles, projRet>>
    /\ UNCHANGED <<streamingFile, ultraFile, streamingRet, ultraRet>>

\* create_monthly_batches in a run in which batch_writer.writerow raises OSError
\* (a full disk) at data row row_idx of matrix.csv, a row that has a month: the
\* except clause returns None and nothing closes the files opened before.
\* finalized tells whether the interpreter has finalized the file objects, which
\* flushes and closes them, by the time the function returns; a file that is
\* not finalized is still open and what was written to it is still in its buffer.
CreateMonthlyBatchesWriteError(row_idx, finalized) ==
    /\ cleaned.exists /\ matrix.exists /\ ReadExcel(cleaned) # <<>>
    /\ row_idx \in 2..Len(matrix.rows)
    /\ batchesDir' = TRUE
    /\ LET invoice_to_month == InvoiceToMonth(InvoiceDates(ReadExcel(cleaned)))
           unique_months == SortedStrs(Range(invoice_to_month))
           st0 == [files |-> OpenBatches(batchFiles, unique_months, matrix.rows[1]),
                   total_rows |-> 0, matched_rows |-> 0, unmatched_invoices |-> {},
                   row_count |-> [m \in Range(unique_months) |-> 0]]
           st == RouteRows(SubSeq(matrix.rows, 1, row_idx - 1), 2, invoice_to_month, st0)
       IN /\ matrix.rows[row_idx] # <<>>
          /\ RowMonth(matrix.rows[row_idx], invoice_to_month) \in Range(unique_months)
          /\ batchFiles' = [m \in DOMAIN st.files |->
                               IF finalized \/ m \notin Range(unique_months)
                               THEN st.files[m] ELSE <<>>]
          /\ openHandles' = IF finalized THEN {} ELSE Range(unique_months)
          /\ batchRet' = [NoBatchRet EXCEPT !.ran = TRUE]
    /\ UNCHANGED <<raw, cleaned, itemsLog, matrix,
                   cleanRet, extractRet, makeRet, fillRet>>
    /\ UNCHANGED <<listRet, reducedDir, reducedFiles, projRet>>
    /\ UNCHANGED <<streamingFile, ultraFile, streamingRet, ultraRet>>

----------------------------------------------------------------------------
(* get_batch_files_list *)

\* f"batch_{month}.csv": batchFiles[month] is the file of that name in batches/
BatchFilename(month) == <<"batch_">> \o month \o <<".csv">>

\* os.path.join(batches_dir, f)
BatchPath(f) == <<"batches/">> \o f

\* os.listdir(batches_dir)
ListDir(files) == {BatchFilename(m) : m \in DOMAIN files}

StartsWith(s, t) == Len(s) >= Len(t) /\ SubSeq(s, 1, Len(t)) = t

EndsWith(s, t) == Len(s) >= Len(t) /\ SubSeq(s, Len(s) - Len(t) + 1, Len(s)) = t

\* f.startswith("batch_") and f.endswith(".csv")
IsBatchFile(f) == StartsWith(f, <<"batch_">>) /\ EndsWith(f, <<".csv">>)

\* a variant of BatchFilesList that lists the files in descending order of name
BatchFilesListDescending(dir_exists, files) ==
    IF ~dir_exists THEN <<>>
    ELSE LET batch_files == SortedStrsDescending({f \in ListDir(files) : IsBatchFile(f)})
         IN [i \in DOMAIN batch_files |-> BatchPath(batch_files[i])]

\* the list get_batch_files_list returns
BatchFilesList(dir_exists, files) ==
    IF ~dir_exists THEN <<>>
    ELSE LET batch_files == SortedStrs({f \in ListDir(files) : IsBatchFile(f)})
         IN [i \in DOMAIN batch_files |-> BatchPath(batch_files[i])]

NoListRet == [ran |-> FALSE, paths |-> <<>>]

GetBatchFilesList ==
    /\ listRet' = [ran |-> TRUE, paths |-> BatchFilesList(batchesDir, batchFiles)]
    /\ UNCHANGED <<raw, cleaned, itemsLog, matrix, batchesDir, batchFiles,
                   cleanRet, extractRet, makeRet, fillRet, batchRet>>
    /\ UNCHANGED <<reducedDir, reducedFiles, projRet>>
    /\ UNCHANGED <<streamingFile, ultraFile, streamingRet, ultraRet, openHandles>>

----------------------------------------------------------------------------
(* process_all_batches (gaussian_random_projection.py) *)

\* None, or a number given for an optional argument
NoneArg == [given |-> FALSE, n |-> 0]
Given(n) == [given |-> TRUE, n |-> n]

\* the file at a path of the batches directory
FileAt(path, files) ==
    IF \E m \in DOMAIN files : BatchPath(BatchFilename(m)) = path
    THEN File(files[CHOOSE m \in DOMAIN files : BatchPath(BatchFilename(m)) = path])
    ELSE NoFile

IsIntText(s) == s # <<>> /\ \A i \in DOMAIN s : s[i] \in {Digit(d) : d \in 0..9}

RECURSIVE StrToNat(_)
StrToNat(s) ==
    IF s = <<>> THEN 0 ELSE StrToNat(SubSeq(s, 1, Len(s) - 1)) * 10 + DigitVal(s[Len(s)])

\* pd.read_csv of a batch file: the first line names the columns; a column
\* whose every field is written in digits is read as numbers, any other as texts
ReadCsv(rows) ==
    LET n == Len(rows) - 1
        numeric == \A i \in 1..n : IsIntText(rows[i + 1][1])
    IN [columns |-> rows[1],
        \* df_batch.iloc[:, 0]
        invoice_no_col |-> [i \in 1..n |-> IF numeric THEN IntV(StrToNat(rows[i + 1][1]))
                                           ELSE StrV(rows[i + 1][1])],
        \* df_batch.iloc[:, 1:].values
        X |-> [i \in 1..n |-> [c \in 1..(Len(rows[1]) - 1) |-> StrToNat(rows[i + 1][c + 1])]],
        shape |-> <<n, Len(rows[1]) - 1>>]

\* int(4 ln(n_samples) / (eps^2 / 2 - eps^3 / 3)) for eps = 0.5, n_samples = 1, 2, ...
JLTable == <<0, 33, 52, 66, 77, 86, 93, 99, 105, 110, 115, 119, 123, 126, 129, 133>>

\* calculate_target_dimension(n_samples, eps = 0.5)
CalculateTargetDimension(n_samples) == JLTable[n_samples]

Max2(a, b) == IF a >= b THEN a ELSE b

NoTransformer == [n_features |-> 0, n_components |-> 0, components |-> <<>>]

NoFit == [ok |-> FALSE, requested |-> 0, warned |-> FALSE, original_shape |-> <<0, 0>>,
          n_components |-> 0]

\* fit_projection_on_batch up to the fit: the target dimension used, or failure
\* (a missing file; the Johnson-Lindenstrauss bound of no samples raising; a
\* dimension <= 0; GaussianRandomProjection.fit raising for an array without
\* samples or without features)
FitDimension(file, n_components) ==
    IF ~file.exists THEN NoFit
    ELSE LET original_shape == ReadCsv(file.rows).shape
         IN IF ~n_components.given /\ original_shape[1] = 0 THEN NoFit
            ELSE LET requested == IF n_components.given THEN n_components.n
                                  ELSE CalculateTargetDimension(original_shape[1])
                     warned == requested >= original_shape[2]
                     clamped == IF warned THEN Max2(1, original_shape[2] - 1) ELSE requested
                 IN IF clamped <= 0 \/ original_shape[1] = 0 \/ original_shape[2] = 0
                    THEN [NoFit EXCEPT !.requested = requested, !.warned = warned,
                                       !.original_shape = original_shape]
                    ELSE [ok |-> TRUE, requested |-> requested, warned |-> warned,
                          original_shape |-> original_shape, n_components |-> clamped]

\* the entries a projection matrix is drawn from (standing for Gaussian values)
Entries == {0 - 1, 1}

\* the matrix drawn for a seed
SeededComponents(seed, k, d) ==
    [j \in 1..k |-> [c \in 1..d |-> IF (seed + j + c) % 2 = 0 THEN 1 ELSE 0 - 1]]

\* the matrices GaussianRandomProjection.fit may draw: one for a given
\* random_state, any without one
DrawComponents(random_state, k, d) ==
    IF random_state.given THEN {SeededComponents(random_state.n, k, d)}
    ELSE [1..k -> [1..d -> Entries]]

RECURSIVE Dot(_, _, _)
Dot(x, r, c) == IF c = 0 THEN 0 ELSE Dot(x, r, c - 1) + x[c] * r[c]

\* projection_transformer.transform(X_batch)
Transform(transformer, X) ==
    [i \in DOMAIN X |->
        [j \in 1..transformer.n_components |->
            Dot(X[i], transformer.components[j], transformer.n_features)]]

\* a float as to_csv writes it
FloatStr(v) ==
    (IF v < 0 THEN <<"-">> \o NatToStr(0 - v) ELSE NatToStr(v)) \o <<".", "0">>

\* f"RP_{i}" for i in range(n_components)
ReducedColumns(n_components) == [j \in 1..n_components |-> <<"RP_">> \o NatToStr(j - 1)]

NoApply == [ok |-> FALSE, df |-> <<>>, csv |-> <<>>]

\* apply_projection_to_batch: the reduced frame and the lines of its csv file, or
\* failure (a missing file; transform raising for an array without samples or
\* with another number of features than the transformer was fitted on)
ApplyProjection(file, transformer) ==
    IF ~file.exists THEN NoApply
    ELSE LET df_batch == ReadCsv(file.rows)
         IN IF df_batch.shape[1] = 0 \/ df_batch.shape[2] # transformer.n_features
            THEN NoApply
            ELSE LET X_batch_reduced == Transform(transformer, df_batch.X)
                     reduced_columns == ReducedColumns(transformer.n_components)
                 IN [ok |-> TRUE,
                     df |-> [i \in DOMAIN X_batch_reduced |->
                                [InvoiceNo |-> df_batch.invoice_no_col[i],
                                 RP |-> X_batch_reduced[i]]],
                     csv |-> <<(<<InvoiceNoText>> \o reduced_columns)>>
                             \o [i \in DOMAIN X_batch_reduced |->
                                    <<StrOf(df_batch.invoice_no_col[i])>>
                                    \o [j \in DOMAIN X_batch_reduced[i] |->
                                            FloatStr(X_batch_reduced[i][j])]]]

\* os.path.basename(batch_path).replace(".csv", "_reduced.csv") in output_dir
OutputPath(batch_path) ==
    <<"gaussian_batches_reduced/">>
    \o [i \in DOMAIN Tail(batch_path) |->
            IF Tail(batch_path)[i] = ".csv" THEN "_reduced.csv" ELSE Tail(batch_path)[i]]

\* one call of fit_projection_on_batch or apply_projection_to_batch
Call(fn, batch_path, transformer, ok) ==
    [fn |-> fn, batch_path |-> batch_path, transformer |-> transformer, ok |-> ok]

\* a variant of ApplyAll that fits anew for every batch after the first
RECURSIVE ApplyAllRefitting(_, _, _, _, _)
ApplyAllRefitting(batch_files, i, transformer, files, st) ==
    IF i > Len(batch_files) THEN st
    ELSE LET batch_path == batch_files[i]
             output_path == OutputPath(batch_path)
             refitted == IF i = 1 THEN transformer
                         ELSE [transformer EXCEPT !.components =
                                 [j \in DOMAIN @ |-> [c \in DOMAIN @[j] |-> 0 - @[j][c]]]]
             df_reduced == ApplyProjection(FileAt(batch_path, files), refitted)
             call == Call("apply", batch_path, refitted, df_reduced.ok)
         IN IF df_reduced.ok
            THEN ApplyAllRefitting(batch_files, i + 1, transformer, files,
                    [st EXCEPT !.reduced = Put(@, output_path, df_reduced.csv),
                               !.processed_batches = Append(@, output_path),
                               !.total_rows_processed = @ + Len(df_reduced.df),
                               !.returned = Append(@, df_reduced.df),
                               !.calls = Append(@, call)])
            ELSE ApplyAllRefitting(batch_files, i + 1, transformer, files,
                    [st EXCEPT !.calls = Append(@, call)])

\* a variant of ApplyAll that ends the loop at the first batch that fails
RECURSIVE ApplyAllStopping(_, _, _, _, _)
ApplyAllStopping(batch_files, i, transformer, files, st) ==
    IF i > Len(batch_files) THEN st
    ELSE LET batch_path == batch_files[i]
             output_path == OutputPath(batch_path)
             df_reduced == ApplyProjection(FileAt(batch_path, files), transformer)
             call == Call("apply", batch_path, transformer, df_reduced.ok)
         IN IF df_reduced.ok
            THEN ApplyAllStopping(batch_files, i + 1, transformer, files,
                    [st EXCEPT !.reduced = Put(@, output_path, df_reduced.csv),
                               !.processed_batches = Append(@, output_path),
                               !.total_rows_processed = @ + Len(df_reduced.df),
                               !.returned = Append(@, df_reduced.df),
                               !.calls = Append(@, call)])
            ELSE [st EXCEPT !.calls = Append(@, call)]

\* the loop over batch_files, st the state before batch i
RECURSIVE ApplyAll(_, _, _, _, _)
ApplyAll(batch_files, i, transformer, files, st) ==
    IF i > Len(batch_files) THEN st
    ELSE LET batch_path == batch_files[i]
             output_path == OutputPath(batch_path)
             df_reduced == ApplyProjection(FileAt(batch_path, files), transformer)
             call == Call("apply", batch_path, transformer, df_reduced.ok)
         IN IF df_reduced.ok
            THEN ApplyAll(batch_files, i + 1, transformer, files,
                    [st EXCEPT !.reduced = Put(@, output_path, df_reduced.csv),
                               !.processed_batches = Append(@, output_path),
                               !.total_rows_processed = @ + Len(df_reduced.df),
                               !.returned = Append(@, df_reduced.df),
                               !.calls = Append(@, call)])
            ELSE ApplyAll(batch_files, i + 1, transformer, files,
                    [st EXCEPT !.calls = Append(@, call)])

\* the arguments of a call of process_all_batches, the random_state aside
Args(first_batch_path, n_components) ==
    [first_batch_path |-> first_batch_path, n_components |-> n_components]

NoProjRet ==
    [ran |-> FALSE, ok |-> FALSE, args |-> Args(<<>>, NoneArg),
     batch_files |-> <<>>, first_batch_path |-> <<>>,
     fit |-> NoFit, transformer |-> NoTransformer, processed_batches |-> <<>>,
     total_rows_processed |-> 0, returned |-> <<>>, calls |-> <<>>]

\* the paths process_all_batches finds in the batches directory, sorted
SortedBatchPaths(files) ==
    SortedStrs({BatchPath(f) : f \in {g \in ListDir(files) : IsBatchFile(g)}})

\* a variant of FitFailed that removes the reduced files of earlier calls
FitFailedClearing(args, batch_files, fit_path, fit, dir, reduced) ==
    [reducedDir |-> dir, reducedFiles |-> <<>>,
     ret |-> [NoProjRet EXCEPT !.ran = TRUE, !.args = args, !.batch_files = batch_files,
                               !.first_batch_path = fit_path, !.fit = fit,
                               !.calls = <<Call("fit", fit_path, NoTransformer, FALSE)>>]]

\* the call when fit_projection_on_batch returned None: it returns None before
\* the output directory is made; dir and reduced are the directory and its
\* files before the call
FitFailed(args, batch_files, fit_path, fit, dir, reduced) ==
    [reducedDir |-> dir, reducedFiles |-> reduced,
     ret |-> [NoProjRet EXCEPT !.ran = TRUE, !.args = args, !.batch_files = batch_files,
                               !.first_batch_path = fit_path, !.fit = fit,
                               !.calls = <<Call("fit", fit_path, NoTransformer, FALSE)>>]]

ProcessAllBatches(first_batch_path, n_components, random_state) ==
    /\ IF ~batchesDir \/ SortedBatchPaths(batchFiles) = <<>>
       THEN /\ projRet' = [NoProjRet EXCEPT
                              !.ran = TRUE,
                              !.args = Args(first_batch_path, n_components)]
            /\ UNCHANGED <<reducedDir, reducedFiles>>
       ELSE LET batch_files == SortedBatchPaths(batchFiles)
                fit_path == IF first_batch_path = <<>> THEN batch_files[1]
                            ELSE first_batch_path
            IN \E fit \in {FitDimension(FileAt(fit_path, batchFiles), n_components)} :
                 IF ~fit.ok
                 THEN \E out \in {FitFailed(Args(first_batch_path, n_components), batch_files,
                                            fit_path, fit, reducedDir, reducedFiles)} :
                        /\ reducedDir' = out.reducedDir
                        /\ reducedFiles' = out.reducedFiles
                        /\ projRet' = out.ret
                 ELSE \E components \in DrawComponents(random_state, fit.n_components,
                                                       fit.original_shape[2]) :
                        LET projection_transformer ==
                                [n_features |-> fit.original_shape[2],
                                 n_components |-> fit.n_components,
                                 components |-> components]
                        IN \E st \in {ApplyAll(batch_files, 1, projection_transformer, batchFiles,
                                        [reduced |-> reducedFiles, processed_batches |-> <<>>,
                                         total_rows_processed |-> 0, returned |-> <<>>,
                                         calls |-> <<Call("fit", fit_path,
                                                          projection_transformer, TRUE)>>])} :
                             /\ reducedDir' = TRUE
                             /\ reducedFiles' = st.reduced
                             /\ projRet' = [ran |-> TRUE, ok |-> TRUE,
                                            args |-> Args(first_batch_path, n_components),
                                            batch_files |-> batch_files,
                                            first_batch_path |-> fit_path, fit |-> fit,
                                            transformer |-> projection_transformer,
                                            processed_batches |-> st.processed_batches,
                                            total_rows_processed |-> st.total_rows_processed,
                                            returned |-> st.returned,
                                            calls |-> st.calls]
    /\ UNCHANGED <<raw, cleaned, itemsLog, matrix, batchesDir, batchFiles,
                   cleanRet, extractRet, makeRet, fillRet, batchRet, listRet>>
    /\ UNCHANGED <<streamingFile, ultraFile, streamingRet, ultraRet, openHandles>>

----------------------------------------------------------------------------
(* create_item_transaction_matrix_streaming (item_transaction_matrix_optimized.py)
   and create_item_transaction_matrix_ultra_streaming
   (item_transaction_matrix_fixed.py), both called with the cleaned workbook *)

\* sorted() of values of which two are not of one kind raises TypeError
SortRaises(S) == \E a, b \in S : a.k # b.k

\* Series.astype(str) of one cell
AsStr(v) == StrV(StrOf(v))

NoMatrixRet == [ran |-> FALSE, ok |-> FALSE, unique_items |-> <<>>, unique_transactions |-> <<>>]

\* what the except clause returns
MatrixFailed == [NoMatrixRet EXCEPT !.ran = TRUE]

\* the worksheet: the header, then one row per transaction; values[t][c] is
\* the value written to the cell of transaction t and item c
Worksheet(unique_items, unique_transactions, values) ==
    <<(<<StrV(InvoiceNoText)>> \o [c \in DOMAIN unique_items |-> AsStr(unique_items[c])])>>
    \o [t \in DOMAIN unique_transactions |->
            <<unique_transactions[t]>>
            \o [c \in DOMAIN unique_items |-> IntV(values[t][c])]]

\* the streaming strategy on a frame: a zero array filled record by record
StreamingRun(df) ==
    LET stock_codes == Range(Column(df, "StockCode"))
        invoice_nos == Range(Column(df, "InvoiceNo"))
    IN IF SortRaises(stock_codes) \/ SortRaises(invoice_nos)
       THEN [saved |-> FALSE, rows |-> <<>>, ret |-> MatrixFailed]
       ELSE LET unique_items == SortedCells(stock_codes)
                unique_transactions == SortedCells(invoice_nos)
                matrix_data ==
                    [t \in DOMAIN unique_transactions |->
                        [c \in DOMAIN unique_items |->
                            IF \E i \in DOMAIN df :
                                  /\ df[i].InvoiceNo = unique_transactions[t]
                                  /\ df[i].StockCode = unique_items[c]
                            THEN 1 ELSE 0]]
            IN \* the density of an empty numpy array is nan, with a warning only
               [saved |-> TRUE,
                rows |-> Worksheet(unique_items, unique_transactions, matrix_data),
                ret |-> [ran |-> TRUE, ok |-> TRUE, unique_items |-> unique_items,
                         unique_transactions |-> unique_transactions]]

CreateItemTransactionMatrixStreaming ==
    /\ IF ~cleaned.exists
       THEN /\ streamingFile' = streamingFile
            /\ streamingRet' = MatrixFailed
       ELSE \E run \in {StreamingRun(ReadExcel(cleaned))} :
                /\ streamingFile' = IF run.saved THEN File(run.rows) ELSE streamingFile
                /\ streamingRet' = run.ret
    /\ UNCHANGED <<raw, cleaned, itemsLog, matrix, batchesDir, batchFiles,
                   cleanRet, extractRet, makeRet, fillRet, batchRet>>
    /\ UNCHANGED <<listRet, reducedDir, reducedFiles, projRet>>
    /\ UNCHANGED <<ultraFile, ultraRet, openHandles>>

\* the ultra streaming strategy on a frame: StockCode as text, then a mapping
\* from every transaction to the set of its items
UltraStreamingRun(df) ==
    LET stock_code == [i \in DOMAIN df |-> AsStr(df[i].StockCode)]
        invoice_nos == Range(Column(df, "InvoiceNo"))
    IN IF SortRaises(invoice_nos)
       THEN [saved |-> FALSE, rows |-> <<>>, ret |-> MatrixFailed]
       ELSE LET unique_items == SortedCells(Range(stock_code))
                unique_transactions == SortedCells(invoice_nos)
                transaction_items(transaction) ==
                    {stock_code[i] : i \in {j \in DOMAIN df : df[j].InvoiceNo = transaction}}
                values ==
                    [t \in DOMAIN unique_transactions |->
                        [c \in DOMAIN unique_items |->
                            IF unique_items[c] \in transaction_items(unique_transactions[t])
                            THEN 1 ELSE 0]]
            IN [saved |-> TRUE,
                rows |-> Worksheet(unique_items, unique_transactions, values),
                \* filled_cells / total_cells of Python integers: ZeroDivisionError
                \* for a frame without records, after the workbook is saved
                ret |-> IF Len(unique_transactions) * Len(unique_items) = 0
                        THEN MatrixFailed
                        ELSE [ran |-> TRUE, ok |-> TRUE, unique_items |-> unique_items,
                              unique_transactions |-> unique_transactions]]

CreateItemTransactionMatrixUltraStreaming ==
    /\ IF ~cleaned.exists
       THEN /\ ultraFile' = ultraFile
            /\ ultraRet' = MatrixFailed
       ELSE \E run \in {UltraStreamingRun(ReadExcel(cleaned))} :
                /\ ultraFile' = IF run.saved THEN File(run.rows) ELSE ultraFile
                /\ ultraRet' = run.ret
    /\ UNCHANGED <<raw, cleaned, itemsLog, matrix, batchesDir, batchFiles,
                   cleanRet, extractRet, makeRet, fillRet, batchRet>>
    /\ UNCHANGED <<listRet, reducedDir, reducedFiles, projRet>>
    /\ UNCHANGED <<streamingFile, streamingRet, openHandles>>

----------------------------------------------------------------------------
(* Inputs *)

Rec(inv, stock, qty, date, cust, price, desc) ==
    [InvoiceNo |-> inv, StockCode |-> stock, Quantity |-> qty, InvoiceDate |-> date,
     CustomerID |-> cust, UnitPrice |-> price, Description |-> desc]

Dec2010 == TsV(2010, 12, 1)
Jan2011 == TsV(2011, 1, 4)

\* records of the record-filter specification: at most two empty required
\* columns, and every kind of unit price
FilterPool ==
    {r \in [InvoiceNo : {StrV(<<"1">>), StrV(<<" ">>)},
            StockCode : {StrV(<<"S">>), NaN},
            Quantity : {IntV(1), NaN},
            InvoiceDate : {Dec2010, NaN},
            CustomerID : {IntV(7), StrV(<<" ", " ">>)},
            UnitPrice : {IntV(2), IntV(0), NaN, StrV(<<"x">>)},
            Description : {StrV(<<"A">>)}] :
        Cardinality({c \in Range(required_columns) : IsEmptyCell(r[c])}) <= 2}

InitFiles ==
    /\ cleaned = NoFile
    /\ itemsLog = NoFile
    /\ matrix = NoFile
    /\ batchesDir = FALSE
    /\ batchFiles = <<>>
    /\ cleanRet = NoCleanRet
    /\ extractRet = [ran |-> FALSE, ok |-> FALSE, unique_descriptions |-> {}]
    /\ makeRet = [ran |-> FALSE, ok |-> FALSE]
    /\ fillRet = [ran |-> FALSE, ok |-> FALSE, num_invoices |-> 0]
    /\ batchRet = NoBatchRet
    /\ listRet = NoListRet
    /\ reducedDir = FALSE
    /\ reducedFiles = <<>>
    /\ projRet = NoProjRet
    /\ streamingFile = NoFile
    /\ ultraFile = NoFile
    /\ streamingRet = NoMatrixRet
    /\ ultraRet = NoMatrixRet
    /\ openHandles = {}

InitFilter ==
    /\ raw \in {File(rows) : rows \in SeqsUpTo(FilterPool, MaxRawRecs)}
    /\ InitFiles

NextFilter == CleanUpData

SpecFilter == InitFilter /\ [][NextFilter]_vars

\* records of the matrix-building specification: two invoices, labels with and
\* without surrounding blanks, a missing label, and one record with a bad price
LabelPool ==
    {Rec(inv, StrV(<<"S">>), IntV(1), Dec2010, IntV(7), IntV(2), desc) :
        inv \in {IntV(1), StrV(<<"2">>)},
        desc \in {StrV(<<"B">>), StrV(<<" ", "A">>), NaN}}
    \cup {Rec(StrV(<<"2">>), StrV(<<"S">>), IntV(1), Dec2010, IntV(7), IntV(0 - 1), StrV(<<"B">>))}

Init ==
    /\ raw \in {File(rows) : rows \in SeqsUpTo(LabelPool, MaxRecs)}
    /\ InitFiles

Next ==
    \/ CleanUpData
    \/ ExtractUniqueDescriptions
    \/ CreateMatrixExcel
    \/ FillMatrix

Spec == Init /\ [][Next]_vars

\* records of the batching specification: invoice numbers as a number, as a
\* text with a leading blank and as a plain text, in two months
DatePool ==
    {Rec(inv, StrV(<<"S">>), IntV(1), date, IntV(7), IntV(2), StrV(<<"A">>)) :
        inv \in {IntV(1), StrV(<<" ", "1">>), StrV(<<"2">>)},
        date \in {Dec2010, Jan2011}}

InitBatch ==
    /\ raw \in {File(rows) : rows \in SeqsUpTo(DatePool, MaxBatchRecs)}
    /\ InitFiles

NextBatch ==
    \/ CleanUpData
    \/ ExtractUniqueDescriptions
    \/ CreateMatrixExcel
    \/ FillMatrix
    \/ CreateMonthlyBatches

SpecBatch == InitBatch /\ [][NextBatch]_vars

\* records of the specification in which the workbook is replaced between runs
RerunPool ==
    {r \in DatePool : \/ r.InvoiceNo = IntV(1) /\ r.InvoiceDate = Dec2010
                      \/ r.InvoiceNo = StrV(<<"2">>) /\ r.InvoiceDate = Jan2011}

RerunInputs == {File(rows) : rows \in SeqsUpTo(RerunPool, MaxRerunRecs)}

\* "Online Retail.xlsx" is replaced by another workbook
NewInput ==
    /\ raw' \in RerunInputs \ {raw}
    /\ UNCHANGED <<cleaned, itemsLog, matrix, batchesDir, batchFiles,
                   cleanRet, extractRet, makeRet, fillRet, batchRet>>
    /\ UNCHANGED <<listRet, reducedDir, reducedFiles, projRet>>
    /\ UNCHANGED <<streamingFile, ultraFile, streamingRet, ultraRet, openHandles>>

InitRerun ==
    /\ raw \in RerunInputs
    /\ InitFiles

NextRerun ==
    \/ NewInput
    \/ CleanUpData
    \/ ExtractUniqueDescriptions
    \/ CreateMatrixExcel
    \/ FillMatrix
    \/ CreateMonthlyBatches

SpecRerun == InitRerun /\ [][NextRerun]_vars

\* the working directory in which items.log, written by an earlier catalog build
\* over a workbook of the pool, is in place
InitWithCatalog ==
    /\ cleaned = NoFile
    /\ itemsLog = File(<<(<<"A">>)>>)
    /\ matrix = NoFile
    /\ batchesDir = FALSE
    /\ batchFiles = <<>>
    /\ cleanRet = NoCleanRet
    /\ extractRet = [ran |-> TRUE, ok |-> TRUE, unique_descriptions |-> {<<"A">>}]
    /\ makeRet = [ran |-> FALSE, ok |-> FALSE]
    /\ fillRet = [ran |-> FALSE, ok |-> FALSE, num_invoices |-> 0]
    /\ batchRet = NoBatchRet
    /\ listRet = NoListRet
    /\ reducedDir = FALSE
    /\ reducedFiles = <<>>
    /\ projRet = NoProjRet
    /\ streamingFile = NoFile
    /\ ultraFile = NoFile
    /\ streamingRet = NoMatrixRet
    /\ ultraRet = NoMatrixRet
    /\ openHandles = {}

InitReplace ==
    /\ raw \in RerunInputs
    /\ InitWithCatalog

\* the workbook is replaced between runs
NextReplace ==
    \/ NewInput
    \/ CleanUpData
    \/ CreateMatrixExcel
    \/ FillMatrix
    \/ CreateMonthlyBatches

SpecReplace == InitReplace /\ [][NextReplace]_vars

\* batching and the listing of the batches directory
InitList ==
    /\ raw \in {File(rows) : rows \in SeqsUpTo(DatePool, MaxBatchRecs)}
    /\ InitWithCatalog

NextList ==
    \/ CleanUpData
    \/ CreateMatrixExcel
    \/ FillMatrix
    \/ CreateMonthlyBatches
    \/ GetBatchFilesList

SpecList == InitList /\ [][NextList]_vars

\* records of the projection specification: an invoice whose number is a
\* number and one whose number is a text of digits, in two months, with two labels
ProjPool ==
    {Rec(IntV(1), StrV(<<"S">>), IntV(1), Dec2010, IntV(7), IntV(2), StrV(<<"A">>)),
     Rec(StrV(<<"0", "2">>), StrV(<<"S">>), IntV(1), Dec2010, IntV(7), IntV(2), StrV(<<"B">>)),
     Rec(StrV(<<"0", "2">>), StrV(<<"S">>), IntV(1), Jan2011, IntV(7), IntV(2), StrV(<<"A">>))}

\* the catalogs an earlier catalog build over a workbook of the pool has written
ProjCatalogs == {<<(<<"A">>)>>, <<(<<"A">>), (<<"B">>)>>}

\* the arguments process_all_batches is called with
FirstBatchPaths == {<<>>, BatchPath(BatchFilename(MonthPeriod(Jan2011)))}

ComponentArgs == {NoneArg} \cup {Given(n) : n \in 0..MaxComponents}

RandomStates == {NoneArg, Given(42)}

\* the files after clean_up_data, create_matrix_excel and fill_matrix have run
\* once each, in this order, over a workbook and a catalog
PipelineFiles(rows, items) ==
    LET run == CleanRun(ReadExcel(File(rows)))
        header == MatrixColumns(ReadItems(items))
        filled == FilledRows(ReadExcel(File(run.df_cleaned)), header)
    IN [cleaned |-> File(run.df_cleaned), cleanRet |-> run.ret,
        matrix |-> File(<<header>> \o filled),
        fillRet |-> [ran |-> TRUE, ok |-> TRUE, num_invoices |-> Len(filled)]]

\* the working directory once matrix.csv is filled
InitProject ==
    \E rows \in SeqsUpTo(ProjPool, MaxProjRecs) \ {<<>>}, items \in ProjCatalogs :
        \E p \in {PipelineFiles(rows, items)} :
            /\ raw = File(rows)
            /\ cleaned = p.cleaned
            /\ itemsLog = File(items)
            /\ matrix = p.matrix
            /\ batchesDir = FALSE
            /\ batchFiles = <<>>
            /\ cleanRet = p.cleanRet
            /\ extractRet = [ran |-> TRUE, ok |-> TRUE, unique_descriptions |-> Range(items)]
            /\ makeRet = [ran |-> TRUE, ok |-> TRUE]
            /\ fillRet = p.fillRet
            /\ batchRet = NoBatchRet
            /\ listRet = NoListRet
            /\ reducedDir = FALSE
            /\ reducedFiles = <<>>
            /\ projRet = NoProjRet
            /\ streamingFile = NoFile
            /\ ultraFile = NoFile
            /\ streamingRet = NoMatrixRet
            /\ ultraRet = NoMatrixRet
            /\ openHandles = {}

NextProject ==
    \/ CreateMonthlyBatches
    \/ \E first_batch_path \in FirstBatchPaths, n_components \in ComponentArgs,
          random_state \in RandomStates :
            ProcessAllBatches(first_batch_path, n_components, random_state)

SpecProject == InitProject /\ [][NextProject]_vars

\* batching in an environment in which a write to a batch file can fail
InitHandles ==
    /\ raw \in {File(rows) : rows \in SeqsUpTo(DatePool, MaxBatchRecs)}
    /\ InitWithCatalog

NextHandles ==
    \/ CleanUpData
    \/ CreateMatrixExcel
    \/ FillMatrix
    \/ CreateMonthlyBatches
    \/ \E row_idx \in 2..(MaxBatchRecs + 1), finalized \in BOOLEAN :
          CreateMonthlyBatchesWriteError(row_idx, finalized)

SpecHandles == InitHandles /\ [][NextHandles]_vars

\* records of the end-to-end specification: an invoice with two items at
\* positive prices and an invoice whose only record has a negative price
T1 == StrV(<<"T", "1">>)
T2 == StrV(<<"T", "2">>)

ScenarioRows ==
    <<Rec(T1, StrV(<<"S">>), IntV(1), Dec2010, IntV(7), IntV(2), StrV(<<"A">>)),
      Rec(T1, StrV(<<"S">>), IntV(1), Dec2010, IntV(7), IntV(3), StrV(<<"B">>)),
      Rec(T2, StrV(<<"S">>), IntV(1), Jan2011, IntV(7), IntV(0 - 1), StrV(<<"A">>))>>

InitScenario ==
    /\ raw \in {File(rows) : rows \in SeqsUpTo(Range(ScenarioRows), MaxScenarioRecs)}
    /\ InitFiles

NextScenario ==
    \/ CleanUpData
    \/ ExtractUniqueDescriptions
    \/ CreateMatrixExcel
    \/ FillMatrix
    \/ CreateMonthlyBatches

SpecScenario == InitScenario /\ [][NextScenario]_vars

\* records of the two-strategies specification: stock codes that are numbers
\* of one and of two digits or a text, and one record the cleaning deletes
StrategyPool ==
    {Rec(inv, stock, IntV(1), Dec2010, IntV(7), IntV(2), StrV(<<"A">>)) :
        inv \in {IntV(1), IntV(2)},
        stock \in {IntV(2), IntV(10), StrV(<<"S">>)}}
    \cup {Rec(IntV(1), IntV(2), IntV(1), Dec2010, IntV(7), IntV(0), StrV(<<"A">>))}

InitStrategies ==
    /\ raw \in {File(rows) : rows \in SeqsUpTo(StrategyPool, MaxStrategyRecs)}
    /\ InitFiles

NextStrategies ==
    \/ CleanUpData
    \/ CreateItemTransactionMatrixStreaming
    \/ CreateItemTransactionMatrixUltraStreaming

SpecStrategies == InitStrategies /\ [][NextStrategies]_vars

\* the batch files an earlier pipeline run, over a workbook of one invoice of
\* December 2010 and the catalog A, has left in batches/
StaleBatchFiles ==
    LET p == PipelineFiles(<<Rec(IntV(1), StrV(<<"S">>), IntV(1), Dec2010, IntV(7), IntV(2),
                                 StrV(<<"A">>))>>,
                           <<(<<"A">>)>>)
    IN BatchRun(ReadExcel(p.cleaned), p.matrix.rows, <<>>).files

\* the working directory once matrix.csv is filled from another workbook, the
\* batch files of the earlier run still in place
InitStale ==
    \E rows \in SeqsUpTo(ProjPool, MaxStaleRecs) \ {<<>>}, items \in ProjCatalogs :
        \E p \in {PipelineFiles(rows, items)} :
            /\ raw = File(rows)
            /\ cleaned = p.cleaned
            /\ itemsLog = File(items)
            /\ matrix = p.matrix
            /\ batchesDir = TRUE
            /\ batchFiles = StaleBatchFiles
            /\ cleanRet = p.cleanRet
            /\ extractRet = [ran |-> TRUE, ok |-> TRUE, unique_descriptions |-> Range(items)]
            /\ makeRet = [ran |-> TRUE, ok |-> TRUE]
            /\ fillRet = p.fillRet
            /\ batchRet = NoBatchRet
            /\ listRet = NoListRet
            /\ reducedDir = FALSE
            /\ reducedFiles = <<>>
            /\ projRet = NoProjRet
            /\ streamingFile = NoFile
            /\ ultraFile = NoFile
            /\ streamingRet = NoMatrixRet
            /\ ultraRet = NoMatrixRet
            /\ openHandles = {}

NextStale ==
    \/ CreateMonthlyBatches
    \/ GetBatchFilesList
    \/ \E first_batch_path \in FirstBatchPaths, n_components \in ComponentArgs,
          random_state \in RandomStates :
            ProcessAllBatches(first_batch_path, n_components, random_state)

SpecStale == InitStale /\ [][NextStale]_vars

----------------------------------------------------------------------------
(* Properties *)

DataRows(f) == SubSeq(f.rows, 2, Len(f.rows))

\* the record carries the item: its label, surrounding blanks aside, is the item
HasItem(rec, item) == ~IsNa(rec.Description) /\ Strip(StrOf(rec.Description)) = item

\* the records of the cleaned workbook that belong to the invoice written as id
RecordsOf(id) == {i \in DOMAIN cleaned.rows : StrOf(cleaned.rows[i].InvoiceNo) = id}

\* C1: in every row of matrix.csv the cell of a catalog item is 1 exactly when a
\* record of that invoice in the cleaned workbook carries that item, whatever
\* blanks surround the label in the workbook.
C1_PresenceIffItemInTransaction ==
    (cleaned.exists /\ matrix.exists) =>
        \A k \in 2..Len(matrix.rows) : \A c \in 2..Len(matrix.rows[1]) :
            (matrix.rows[k][c] = <<"1">>)
            <=> \E i \in RecordsOf(matrix.rows[k][1]) :
                    HasItem(cleaned.rows[i], matrix.rows[1][c])

FirstIndex(s, v) == CHOOSE i \in DOMAIN s : s[i] = v /\ \A j \in 1..(i - 1) : s[j] # v

\* C2: one run of fill_matrix appends exactly one row per distinct invoice number
\* of the cleaned workbook, in the order in which the numbers first occur there.
C2_OneRowPerInvoiceInFirstSeenOrder ==
    [][(FillMatrix /\ cleaned.exists /\ matrix.exists) =>
        LET ids == Column(cleaned.rows, "InvoiceNo")
            new == SubSeq(matrix'.rows, Len(matrix.rows) + 1, Len(matrix'.rows))
        IN /\ SubSeq(matrix'.rows, 1, Len(matrix.rows)) = matrix.rows
           /\ Len(new) = Cardinality(Range(ids))
           /\ \A k \in DOMAIN new :
                \E v \in Range(ids) :
                    /\ new[k][1] = StrOf(v)
                    /\ Cardinality({w \in Range(ids) :
                                       FirstIndex(ids, w) < FirstIndex(ids, v)}) = k - 1
      ]_vars

\* a run of fill_matrix over a workbook in which the records of the first
\* invoice are not contiguous
C2_Witness ==
    /\ fillRet.ok
    /\ Len(cleaned.rows) = 3
    /\ cleaned.rows[1].InvoiceNo = cleaned.rows[3].InvoiceNo
    /\ cleaned.rows[1].InvoiceNo # cleaned.rows[2].InvoiceNo
    /\ Len(matrix.rows) = 3
    /\ matrix.rows[2][1] = StrOf(cleaned.rows[1].InvoiceNo)
    /\ matrix.rows[3][1] = StrOf(cleaned.rows[2].InvoiceNo)

RECURSIVE SumOver(_, _)
SumOver(f, S) ==
    IF S = {} THEN 0
    ELSE LET x == CHOOSE y \in S : TRUE IN f[x] + SumOver(f, S \ {x})

\* C3: after create_monthly_batches the row counts of the partitions plus the
\* reported number of unmatched invoices equal the number of matrix rows read.
C3_PartitionCompleteness ==
    batchRet.ok =>
        SumOver(batchRet.row_count, DOMAIN batchRet.row_count)
            + Cardinality(batchRet.unmatched_invoices) = batchRet.total_rows

\* C4: after clean_up_data has run, the number of discarded records plus the
\* number of records of the cleaned workbook is the number of input records.
C4_DiscardedPlusCleanedIsInput ==
    cleanRet.ran =>
        /\ cleaned.exists
        /\ Len(cleanRet.deleted_rows) + Len(cleaned.rows) = Len(raw.rows)

\* no rule fires: no required column is empty and the unit price is a number > 0
NoRuleFires(rec) ==
    /\ \A c \in Range(required_columns) :
          ~IsNa(rec[c]) /\ ~(rec[c].k = "str" /\ \A j \in DOMAIN rec[c].s : rec[c].s[j] = " ")
    /\ rec.UnitPrice.k = "int"
    /\ rec.UnitPrice.n > 0

\* C5: after clean_up_data has run, the cleaned workbook holds exactly the input
\* records for which no rule fires, in input order.
C5_CleanedIsValidSubsequence ==
    cleanRet.ran =>
        /\ cleaned.exists
        /\ cleaned.rows = SelectSeq(raw.rows, NoRuleFires)

\* C6: a record whose unit price cannot be compared with a number does not end
\* the run: the run succeeds, that record is discarded and the others are kept
\* or discarded by the rules.
C6_UncomparablePriceDoesNotAbort ==
    (cleanRet.ran /\ \E i \in DOMAIN raw.rows : raw.rows[i].UnitPrice.k = "str") =>
        /\ cleanRet.ok
        /\ cleaned.exists
        /\ Len(cleaned.rows) = Cardinality({i \in DOMAIN raw.rows : NoRuleFires(raw.rows[i])})

\* C7: every data row of matrix.csv has one cell per item column of the header,
\* and every such cell is 0 or 1.
C7_RowsAlignedAndBinary ==
    matrix.exists =>
        \A k \in 2..Len(matrix.rows) :
            /\ Len(matrix.rows[k]) = Len(matrix.rows[1])
            /\ \A c \in 2..Len(matrix.rows[k]) : matrix.rows[k][c] \in {<<"0">>, <<"1">>}

\* a row of an invoice that holds the same item twice
C7_Witness ==
    /\ fillRet.ok
    /\ Len(matrix.rows) >= 2
    /\ Len(matrix.rows[1]) >= 2
    /\ \E i, j \in RecordsOf(matrix.rows[2][1]) :
          /\ i # j
          /\ cleaned.rows[i].Description = cleaned.rows[j].Description
          /\ StrOf(cleaned.rows[i].Description) \in Range(Tail(matrix.rows[1]))
    /\ \E c \in 2..Len(matrix.rows[2]) : matrix.rows[2][c] = <<"1">>

\* the items of the cleaned workbook: the labels present, surrounding blanks aside
ItemsOf(rows) ==
    {x \in {Strip(StrOf(rows[i].Description)) : i \in DOMAIN rows} :
        x # <<>> /\ \E i \in DOMAIN rows : HasItem(rows[i], x)}

\* every member of S exactly once, in ascending order
IsSortedListOf(seq, S) ==
    /\ Range(seq) = S
    /\ \A i, j \in DOMAIN seq : i < j => StrLess(seq[i], seq[j])

\* C8: a run of extract_unique_descriptions that starts without items.log leaves
\* in it every item of the cleaned workbook exactly once in lexicographic order,
\* and create_matrix_excel writes the id column followed by the lines of
\* items.log, in their order, as the header.
C8_CatalogSortedDistinctAndHeader ==
    [][/\ (ExtractUniqueDescriptions /\ ~itemsLog.exists /\ cleaned.exists) =>
            IsSortedListOf(itemsLog'.rows, ItemsOf(cleaned.rows))
       /\ (CreateMatrixExcel /\ itemsLog.exists
             /\ IsSortedListOf(itemsLog.rows, ItemsOf(cleaned.rows))) =>
            /\ Len(matrix'.rows) = 1
            /\ Head(matrix'.rows[1]) = InvoiceNoText
            /\ Tail(matrix'.rows[1]) = itemsLog.rows
      ]_vars

\* a catalog of two items built from a workbook that names the later one first
C8_Witness ==
    /\ extractRet.ok
    /\ makeRet.ok
    /\ Len(cleaned.rows) >= 2
    /\ cleaned.rows[1].Description = StrV(<<"B">>)
    /\ cleaned.rows[2].Description = StrV(<<" ", "A">>)
    /\ itemsLog.rows = <<(<<"A">>), (<<"B">>)>>
    /\ matrix.exists
    /\ matrix.rows[1] = <<InvoiceNoText, <<"A">>, <<"B">> >>

\* C9: the month create_monthly_batches assigns to an invoice number is the
\* month of the earliest date among all records of that invoice number.
C9_PeriodIsMonthOfEarliestRecord ==
    batchRet.ok =>
        \A i \in DOMAIN cleaned.rows :
            LET key == InvoiceNoStr(cleaned.rows[i].InvoiceNo)
                dates == {cleaned.rows[j].InvoiceDate :
                            j \in {x \in DOMAIN cleaned.rows :
                                     InvoiceNoStr(cleaned.rows[x].InvoiceNo) = key}}
                earliest == CHOOSE t \in dates : \A u \in dates : t.n <= u.n
            IN /\ key \in DOMAIN batchRet.invoice_to_month
               /\ batchRet.invoice_to_month[key] = MonthPeriod(earliest)

\* C10: every batch file a run of create_monthly_batches writes is the header of
\* matrix.csv followed by exactly the rows of matrix.csv whose stripped id the
\* run maps to the month of the file, unchanged and in the order of matrix.csv;
\* the files of one run share no row of matrix.csv.
C10_PartitionIsStableSelection ==
    [][(CreateMonthlyBatches /\ batchRet'.ok) =>
        LET map == batchRet'.invoice_to_month
            MonthOfRow(row) ==
                IF Strip(row[1]) \in DOMAIN map THEN map[Strip(row[1])] ELSE <<>>
        IN /\ \A m \in DOMAIN batchRet'.row_count :
                LET InMonth(row) == MonthOfRow(row) = m
                IN batchFiles'[m] = <<matrix.rows[1]>> \o SelectSeq(DataRows(matrix), InMonth)
           /\ SumOver([m \in DOMAIN batchRet'.row_count |-> Len(batchFiles'[m]) - 1],
                      DOMAIN batchRet'.row_count)
              = Cardinality({k \in 2..Len(matrix.rows) : MonthOfRow(matrix.rows[k]) # <<>>})
      ]_vars

\* a run that writes two different rows of matrix.csv to one batch file
C10_Witness ==
    /\ batchRet.ok
    /\ Len(matrix.rows) = 3
    /\ \E m \in DOMAIN batchRet.row_count :
          /\ batchRet.row_count[m] = 2
          /\ batchFiles[m] = matrix.rows
          /\ batchFiles[m][2] # batchFiles[m][3]

\* C11: create_monthly_batches strips and stringifies both the invoice numbers
\* of the cleaned workbook (the keys of the mapping) and the id of every row of
\* matrix.csv: a row whose id is, blanks and number-or-text aside, an invoice
\* number of the cleaned workbook is written to the batch file of the month the
\* mapping holds for it and is not reported as unmatched.
C11_KeysNormalizedOnBothSides ==
    [][(CreateMonthlyBatches /\ batchRet'.ok) =>
        LET map == batchRet'.invoice_to_month
        IN \A k \in 2..Len(matrix.rows) : \A i \in DOMAIN cleaned.rows :
              LET key == Strip(matrix.rows[k][1])
              IN key = Strip(StrOf(cleaned.rows[i].InvoiceNo)) =>
                    /\ key \in DOMAIN map
                    /\ \E j \in 2..Len(batchFiles'[map[key]]) :
                          batchFiles'[map[key]][j] = matrix.rows[k]
                    /\ key \notin batchRet'.unmatched_invoices
                    /\ matrix.rows[k][1] \notin batchRet'.unmatched_invoices
      ]_vars

\* a run that routes a row whose id is written with a leading blank, and a row
\* whose id was a number in the workbook
C11_Witness ==
    /\ batchRet.ok
    /\ batchRet.matched_rows = 2
    /\ batchRet.unmatched_invoices = {}
    /\ Len(matrix.rows) = 3
    /\ Len(cleaned.rows) = 2
    /\ cleaned.rows[1].InvoiceNo = StrV(<<" ", "1">>)
    /\ cleaned.rows[2].InvoiceNo = IntV(1)
    /\ matrix.rows[2][1] = <<" ", "1">>
    /\ matrix.rows[3][1] = <<"1">>
    /\ \E m \in DOMAIN batchFiles : batchFiles[m] = matrix.rows

\* the stripped texts of the invoice numbers of the cleaned workbook
CleanedKeys == {Strip(StrOf(cleaned.rows[i].InvoiceNo)) : i \in DOMAIN cleaned.rows}

PeriodIndex(path) ==
    (DigitVal(path[3]) * 1000 + DigitVal(path[4]) * 100 + DigitVal(path[5]) * 10
        + DigitVal(path[6])) * 12
    + DigitVal(path[8]) * 10 + DigitVal(path[9])

\* C13: a run of create_monthly_batches writes one batch file for every month
\* the mapping holds, named batch_<month>.csv, and no other file; and
\* get_batch_files_list returns the path of every batch file once, earlier months
\* before later ones.
\* (The first conjunct of each case repeats what the action leaves unchanged.)
C13_OneFilePerPeriodListedChronologically ==
    [][/\ (/\ UNCHANGED <<raw, cleaned, matrix, listRet>>
           /\ CreateMonthlyBatches /\ batchRet'.ok) =>
            LET periods == Range(batchRet'.invoice_to_month)
            IN /\ DOMAIN batchRet'.row_count = periods
               /\ \A p \in periods :
                     /\ BatchFilename(p) \in ListDir(batchFiles')
                     /\ Head(batchFiles'[p]) = matrix.rows[1]
               /\ \A m \in DOMAIN batchFiles' \ periods :
                     m \in DOMAIN batchFiles /\ batchFiles'[m] = batchFiles[m]
       /\ (/\ UNCHANGED <<raw, cleaned, matrix, batchFiles, batchRet>>
           /\ GetBatchFilesList) =>
            LET paths == listRet'.paths
            IN /\ Range(paths) = {BatchPath(BatchFilename(m)) : m \in DOMAIN batchFiles}
               /\ \A i, j \in DOMAIN paths :
                     i < j => PeriodIndex(paths[i]) < PeriodIndex(paths[j])
      ]_vars

\* a listing of the two batch files a run has written for a workbook whose
\* first invoice is of the later month
C13_Witness ==
    /\ batchRet.ok
    /\ listRet.ran
    /\ Len(cleaned.rows) = 2
    /\ cleaned.rows[1].InvoiceDate = Jan2011
    /\ cleaned.rows[2].InvoiceDate = Dec2010
    /\ DOMAIN batchRet.row_count = {MonthPeriod(Dec2010), MonthPeriod(Jan2011)}
    /\ listRet.paths = <<BatchPath(BatchFilename(MonthPeriod(Dec2010))),
                         BatchPath(BatchFilename(MonthPeriod(Jan2011)))>>

\* the step is a call of process_all_batches with the arguments it records
ProcessStep ==
    /\ UNCHANGED <<raw, cleaned, itemsLog, matrix, batchesDir, batchFiles, batchRet>>
    /\ projRet'.ran
    /\ \E random_state \in RandomStates :
          ProcessAllBatches(projRet'.args.first_batch_path, projRet'.args.n_components,
                            random_state)

\* the paths of the batch files, earlier months first
ChronologicalPaths ==
    LET paths == {BatchPath(BatchFilename(m)) : m \in DOMAIN batchFiles}
    IN [i \in 1..Cardinality(paths) |->
            CHOOSE x \in paths :
                Cardinality({y \in paths : PeriodIndex(y) < PeriodIndex(x)}) = i - 1]

\* C14: a call of process_all_batches that finds batch files calls
\* fit_projection_on_batch once, first, on the designated batch file or, when
\* none is designated, on the file of the earliest month; when that fit succeeds
\* it then calls apply_projection_to_batch once for every batch file, earlier
\* months first, the fitted file included, each time with the transformer the
\* fit returned.
C14_FitOnceThenApplySameModelToAll ==
    [][(ProcessStep /\ batchesDir /\ DOMAIN batchFiles # {}) =>
        LET calls == projRet'.calls
            designated == projRet'.args.first_batch_path
        IN /\ Len(calls) >= 1
           /\ calls[1].fn = "fit"
           /\ calls[1].batch_path = IF designated = <<>> THEN ChronologicalPaths[1]
                                    ELSE designated
           /\ \A i \in 2..Len(calls) : calls[i].fn = "apply"
           /\ ~calls[1].ok => Len(calls) = 1
           /\ calls[1].ok =>
                /\ Len(calls) = 1 + Len(ChronologicalPaths)
                /\ \A i \in DOMAIN ChronologicalPaths :
                      /\ calls[i + 1].batch_path = ChronologicalPaths[i]
                      /\ calls[i + 1].transformer = calls[1].transformer
                /\ \E i \in 2..Len(calls) : calls[i].batch_path = calls[1].batch_path
      ]_vars

\* a call that fits on the designated file of the later of two months
C14_Witness ==
    /\ projRet.ok
    /\ projRet.args.first_batch_path = BatchPath(BatchFilename(MonthPeriod(Jan2011)))
    /\ Len(projRet.calls) = 3
    /\ projRet.calls[1].fn = "fit"
    /\ projRet.calls[1].batch_path = BatchPath(BatchFilename(MonthPeriod(Jan2011)))
    /\ projRet.calls[2].batch_path = BatchPath(BatchFilename(MonthPeriod(Dec2010)))
    /\ projRet.calls[3].batch_path = BatchPath(BatchFilename(MonthPeriod(Jan2011)))
    /\ projRet.calls[2].ok /\ projRet.calls[3].ok
    /\ Len(projRet.processed_batches) = 2

\* the target dimension asked of the fit, clamped to one less than the number
\* of item columns when it is not smaller than that number
ClampedBelowSource(fit) ==
    IF fit.requested >= fit.original_shape[2] THEN fit.original_shape[2] - 1
    ELSE fit.requested

\* C15: whenever fit_projection_on_batch returns a transformer, its target
\* dimension is smaller than the number of item columns of the batch file, and
\* when the dimension asked for (given, or derived from the number of rows) was
\* not smaller, it is that number less one and the warning was printed.
C15_TargetBelowSourceDimension ==
    projRet.fit.ok =>
        /\ projRet.fit.n_components < projRet.fit.original_shape[2]
        /\ projRet.fit.requested >= projRet.fit.original_shape[2] =>
              /\ projRet.fit.warned
              /\ projRet.fit.n_components = projRet.fit.original_shape[2] - 1

\* C16: fit_projection_on_batch returns no transformer whenever the dimension
\* asked for, clamped to one less than the number of item columns, is <= 0.
C16_NonPositiveClampedDimensionFails ==
    (projRet.ran /\ projRet.calls # <<>> /\ ClampedBelowSource(projRet.fit) <= 0) =>
        ~projRet.fit.ok

\* the frame the i-th call of a run returned
ReturnedOf(ret, i) == ret.returned[Cardinality({j \in 2..i : ret.calls[j].ok})]

\* C17: every call of apply_projection_to_batch on a batch file that has as many
\* item columns as the transformer was fitted on returns a frame with one row
\* per row of the batch file, carrying the ids of the batch file as they are
\* written there, in its order, each followed by as many components as the
\* target dimension of the transformer.
C17_ApplyKeepsRowsIdsAndTargetWidth ==
    [][(ProcessStep /\ projRet'.ok) =>
        \A i \in 2..Len(projRet'.calls) :
            LET call == projRet'.calls[i]
                file == FileAt(call.batch_path, batchFiles)
            IN (file.exists /\ Len(file.rows[1]) - 1 = call.transformer.n_features) =>
                 /\ call.ok
                 /\ LET df == ReturnedOf(projRet', i)
                    IN /\ Len(df) = Len(file.rows) - 1
                       /\ \A r \in DOMAIN df :
                             /\ StrOf(df[r].InvoiceNo) = file.rows[r + 1][1]
                             /\ Len(df[r].RP) = call.transformer.n_components
      ]_vars

\* C18: a call of process_all_batches whose fit returns no transformer returns
\* failure, and leaves the batch files, the reduced files of earlier calls and
\* the output directory as they were.
C18_FailedFitWritesNothing ==
    [][(ProcessStep /\ projRet'.calls # <<>> /\ ~projRet'.calls[1].ok) =>
        /\ ~projRet'.ok
        /\ Len(projRet'.calls) = 1
        /\ projRet'.processed_batches = <<>>
        /\ reducedFiles' = reducedFiles
        /\ reducedDir' = reducedDir
        /\ batchFiles' = batchFiles
      ]_vars

\* a call that asks for dimension 0 after an earlier call has written the
\* reduced files of two batch files
C18_Witness ==
    /\ projRet.ran
    /\ ~projRet.ok
    /\ Len(projRet.calls) = 1
    /\ ~projRet.calls[1].ok
    /\ projRet.args.n_components = Given(0)
    /\ Cardinality(DOMAIN batchFiles) = 2
    /\ DOMAIN reducedFiles = {OutputPath(BatchPath(BatchFilename(m))) : m \in DOMAIN batchFiles}

\* C19: a run of create_monthly_batches or of fill_matrix that finds the
\* cleaned workbook or matrix.csv missing returns failure and leaves the working
\* directory as it was: no file and no directory is created and none is changed.
C19_AbortBeforeAnyOutput ==
    [][/\ (CreateMonthlyBatches /\ (~cleaned.exists \/ ~matrix.exists)) =>
            /\ ~batchRet'.ok
            /\ batchesDir' = batchesDir
            /\ batchFiles' = batchFiles
            /\ matrix' = matrix
       /\ (FillMatrix /\ (~cleaned.exists \/ ~matrix.exists)) =>
            /\ ~fillRet'.ok
            /\ matrix' = matrix
            /\ batchesDir' = batchesDir
            /\ batchFiles' = batchFiles
      ]_vars


\* the catalog a catalog build leaves when it starts without items.log
FreshCatalog == SortedStrs(UniqueDescriptions(ReadExcel(cleaned)))

\* matrix.csv after create_matrix_excel and fill_matrix have run once each, in
\* this order, over the lines of items.log
MatrixOver(lines) ==
    LET header == MatrixColumns(ReadItems(lines))
    IN <<header>> \o FilledRows(ReadExcel(cleaned), header)

\* the batch files create_monthly_batches writes over matrix.csv
PartitionsOver(matrix_rows) == BatchRun(ReadExcel(cleaned), matrix_rows, <<>>).files

\* the working directory is the outcome of pipeline runs over the workbook:
\* items.log holds what catalog builds over it wrote, matrix.csv was made from
\* items.log as it is and filled once, and the batch files were written from
\* this matrix.csv
PipelineRunComplete ==
    /\ extractRet.ok /\ makeRet.ok /\ fillRet.ok /\ batchRet.ok
    /\ Range(itemsLog.rows) = Range(FreshCatalog)
    /\ matrix.rows = MatrixOver(itemsLog.rows)
    /\ batchFiles = PartitionsOver(matrix.rows)

\* C20: every pipeline run (catalog build, create_matrix_excel, fill_matrix,
\* create_monthly_batches) over one workbook ends with the same matrix.csv and
\* the same batch files, header, rows and row order alike: those of the run
\* that starts in a directory holding the cleaned workbook only.
C20_RunsOverSameInputAgree ==
    PipelineRunComplete =>
        /\ matrix.rows = MatrixOver(FreshCatalog)
        /\ batchFiles = PartitionsOver(MatrixOver(FreshCatalog))


\* the files of the end-to-end scenario
ScenarioCleaned == SubSeq(ScenarioRows, 1, 2)
ScenarioHeader == <<InvoiceNoText, <<"A">>, <<"B">> >>
ScenarioRow == <<(<<"T", "1">>), (<<"1">>), (<<"1">>)>>

\* C21: over the workbook (T1, A, price 2), (T1, B, price 3), (T2, A, price -1)
\* clean_up_data drops the third record only; the catalog built from the cleaned
\* workbook is A, B; fill_matrix writes the single row T1,1,1 under the header
\* made from it; create_monthly_batches writes one batch file, that of the
\* month of T1, holding the header and this row, and counts no unmatched row.
C21_EndToEndScenario ==
    [][/\ (CleanUpData /\ raw.rows = ScenarioRows) =>
            /\ cleanRet'.ok
            /\ cleaned'.rows = ScenarioCleaned
            /\ Len(cleanRet'.deleted_rows) = 1
            /\ cleanRet'.deleted_rows[1].index = 3
       /\ (ExtractUniqueDescriptions /\ ~itemsLog.exists
             /\ cleaned.exists /\ cleaned.rows = ScenarioCleaned) =>
            itemsLog'.rows = Tail(ScenarioHeader)
       /\ (CreateMatrixExcel /\ itemsLog.exists
             /\ itemsLog.rows = Tail(ScenarioHeader)) =>
            matrix'.rows = <<ScenarioHeader>>
       /\ (FillMatrix /\ cleaned.exists /\ cleaned.rows = ScenarioCleaned
             /\ matrix.exists /\ matrix.rows = <<ScenarioHeader>>) =>
            matrix'.rows = <<ScenarioHeader, ScenarioRow>>
       /\ (CreateMonthlyBatches /\ cleaned.exists /\ cleaned.rows = ScenarioCleaned
             /\ matrix.exists /\ matrix.rows = <<ScenarioHeader, ScenarioRow>>
             /\ batchFiles = <<>>) =>
            /\ batchRet'.ok
            /\ DOMAIN batchFiles' = {MonthPeriod(Dec2010)}
            /\ batchFiles'[MonthPeriod(Dec2010)] = <<ScenarioHeader, ScenarioRow>>
            /\ batchRet'.unmatched_invoices = {}
            /\ batchRet'.matched_rows = 1
      ]_vars

\* the scenario run to its end, every stage once
C21_Witness ==
    /\ raw.rows = ScenarioRows
    /\ cleanRet.ok /\ extractRet.ok /\ makeRet.ok /\ fillRet.ok /\ batchRet.ok
    /\ cleaned.rows = ScenarioCleaned
    /\ itemsLog.rows = Tail(ScenarioHeader)
    /\ matrix.rows = <<ScenarioHeader, ScenarioRow>>
    /\ DOMAIN batchFiles = {MonthPeriod(Dec2010)}
    /\ batchFiles[MonthPeriod(Dec2010)] = <<ScenarioHeader, ScenarioRow>>


\* C22: after every run of fill_matrix that writes, matrix.csv holds exactly one
\* row per distinct invoice number of the cleaned workbook, also when
\* create_matrix_excel has not run again since the run of fill_matrix before it.
C22_RefillAddsNoDuplicateRows ==
    [][(FillMatrix /\ fillRet'.ok) =>
        LET ids == Column(cleaned.rows, "InvoiceNo")
            written == [k \in 1..(Len(matrix'.rows) - 1) |-> matrix'.rows[k + 1][1]]
        IN /\ Len(written) = Cardinality(Range(ids))
           /\ \A j, k \in DOMAIN written : j # k => written[j] # written[k]
      ]_vars


\* C23: after one or more runs of extract_unique_descriptions over the same
\* cleaned workbook, items.log staying in place between them, the catalog
\* create_matrix_excel reads from items.log is the one a single run leaves:
\* every item of the cleaned workbook exactly once.
C23_CatalogRecreatedOnEveryRun ==
    [][(ExtractUniqueDescriptions /\ cleaned.exists
          /\ \/ ~itemsLog.exists
             \/ extractRet.ok /\ Range(itemsLog.rows) \subseteq Range(FreshCatalog)) =>
        /\ ReadItems(itemsLog'.rows) = FreshCatalog
        /\ \A i, j \in DOMAIN ReadItems(itemsLog'.rows) :
              i # j => ReadItems(itemsLog'.rows)[i] # ReadItems(itemsLog'.rows)[j]
      ]_vars


\* the required column of the record is missing or a text of blanks only
FieldIsEmpty(rec, c) ==
    IsNa(rec[c]) \/ (rec[c].k = "str" /\ \A j \in DOMAIN rec[c].s : rec[c].s[j] = " ")

\* the unit price of the record is missing or not positive
PriceRuleFires(rec) == IsNa(rec.UnitPrice) \/ (rec.UnitPrice.k = "int" /\ rec.UnitPrice.n <= 0)

\* the number of rules the record violates
ViolatedRules(rec) ==
    Cardinality({c \in Range(required_columns) : FieldIsEmpty(rec, c)})
    + (IF PriceRuleFires(rec) THEN 1 ELSE 0)

\* C24: the deletion reason clean_up_data records for a discarded record holds
\* one entry for every rule the record violates, every empty required column
\* and the unit price rule, and no other entry.
C24_EveryViolatedRuleIsRecorded ==
    cleanRet.ok =>
        \A j \in DOMAIN cleanRet.deleted_rows :
            LET rec == raw.rows[cleanRet.deleted_rows[j].index]
                reasons == cleanRet.deleted_rows[j].deletion_reason
            IN /\ \A c \in Range(required_columns) :
                     FieldIsEmpty(rec, c) => (c \o " is empty") \in Range(reasons)
               /\ PriceRuleFires(rec) =>
                     \E r \in Range(reasons) : r \in {"UnitPrice is empty", "UnitPrice is <= 0"}
               /\ Len(reasons) = ViolatedRules(rec)

\* a discarded record that violates three rules at once
C24_Witness ==
    /\ cleanRet.ok
    /\ \E j \in DOMAIN cleanRet.deleted_rows :
          /\ ViolatedRules(raw.rows[cleanRet.deleted_rows[j].index]) = 3
          /\ Len(cleanRet.deleted_rows[j].deletion_reason) = 3


\* C25: run on the same cleaned workbook, the streaming strategy and the ultra
\* streaming strategy end alike: both succeed or both fail, and when they
\* succeed their worksheets have the same header and the same rows, in the
\* same order and with the same cells.
C25_StrategiesAgree ==
    (/\ cleaned.exists
     /\ streamingRet.ran /\ ultraRet.ran
     /\ streamingRet = StreamingRun(ReadExcel(cleaned)).ret
     /\ ultraRet = UltraStreamingRun(ReadExcel(cleaned)).ret) =>
        /\ streamingRet.ok = ultraRet.ok
        /\ streamingRet.ok => streamingFile.rows = ultraFile.rows


\* the paths of the batch files the last run of create_monthly_batches wrote
PathsOfRun == {BatchPath(BatchFilename(m)) : m \in DOMAIN batchRet.row_count}

\* C26: once create_monthly_batches has completed, get_batch_files_list returns,
\* and process_all_batches works on, exactly the batch files of the months of
\* that run: a batch file an earlier run over another workbook left in
\* batches/ is not among them.
C26_OnlyFilesOfTheRunAreListed ==
    [][/\ (/\ UNCHANGED <<raw, cleaned, matrix, batchFiles, batchRet, projRet>>
           /\ batchRet.ok
           /\ GetBatchFilesList) =>
            Range(listRet'.paths) = PathsOfRun
       /\ (ProcessStep /\ batchRet.ok) =>
            Range(projRet'.batch_files) = PathsOfRun
      ]_vars


\* C27: when create_monthly_batches has returned, with its summary or after an
\* error, none of the batch files it opened for writing is still open.
C27_BatchFilesClosedOnReturn ==
    batchRet.ran => openHandles = {}


\* C28: on a workbook without records clean_up_data succeeds and writes a cleaned
\* workbook without records, reporting no discarded and no remaining record.
C28_EmptyInputSucceeds ==
    (cleanRet.ran /\ raw.rows = <<>>) =>
        /\ cleanRet.ok
        /\ cleaned.exists
        /\ cleaned.rows = <<>>
        /\ cleanRet.deleted_rows = <<>>
        /\ cleanRet.remaining = 0


\* the step is a call of process_all_batches that has returned: no other
\* function writes what it returns or the reduced files
ProcessReturned ==
    /\ UNCHANGED <<raw, cleaned, itemsLog, matrix, batchesDir, batchFiles, batchRet>>
    /\ projRet' # projRet \/ reducedFiles' # reducedFiles
    /\ projRet'.ran

\* the batch file can be projected: it has a data row and as many item columns
\* as the file the transformer was fitted on
Projectable(path, n_features) ==
    LET rows == FileAt(path, batchFiles).rows
    IN Len(rows) >= 2 /\ Len(rows[1]) - 1 = n_features

\* C29: in a run of process_all_batches whose fit succeeds, a batch file on
\* which apply_projection_to_batch fails does not end the loop: every batch file
\* is tried, earlier months first, and processed_batches holds the reduced
\* files of exactly the batch files on which it succeeded, in that order; the
\* reduced file of a batch file on which it failed is left as it was.
C29_FailedApplyDoesNotStopTheRun ==
    [][(ProcessReturned /\ projRet'.ok) =>
        \A paths \in {ChronologicalPaths} :
           LET calls == projRet'.calls
               n_features == projRet'.transformer.n_features
               Fits(path) == Projectable(path, n_features)
               good == SelectSeq(paths, Fits)
           IN /\ Len(calls) = 1 + Len(paths)
              /\ \A i \in DOMAIN paths :
                    /\ calls[i + 1].fn = "apply"
                    /\ calls[i + 1].batch_path = paths[i]
                    /\ calls[i + 1].ok <=> Projectable(paths[i], n_features)
                    /\ ~calls[i + 1].ok =>
                          LET output_path == OutputPath(paths[i])
                          IN IF output_path \in DOMAIN reducedFiles
                             THEN reducedFiles'[output_path] = reducedFiles[output_path]
                             ELSE output_path \notin DOMAIN reducedFiles'
              /\ projRet'.processed_batches = [i \in DOMAIN good |-> OutputPath(good[i])]
      ]_vars

\* a run in which the transformer, fitted on the file of the later month, cannot
\* be applied to the file of the earlier month and is applied to the later one
C29_Witness ==
    /\ projRet.ok
    /\ Len(projRet.calls) = 3
    /\ projRet.calls[2].batch_path = BatchPath(BatchFilename(MonthPeriod(Dec2010)))
    /\ ~projRet.calls[2].ok
    /\ projRet.calls[3].batch_path = BatchPath(BatchFilename(MonthPeriod(Jan2011)))
    /\ projRet.calls[3].ok
    /\ projRet.processed_batches
         = <<OutputPath(BatchPath(BatchFilename(MonthPeriod(Jan2011))))>>
    /\ DOMAIN reducedFiles = {OutputPath(BatchPath(BatchFilename(MonthPeriod(Jan2011))))}

====
